---- MODULE Spec2Model ----
(***************************************************************************)
(* Model of finance_agent's batch anomaly detector                         *)
(* (src/finance_agent/services/anomaly_detection.py).                      *)
(*                                                                         *)
(* Numbers.  Python floats are modelled by exact arithmetic.  An amount is *)
(* an integer number of 0.002 currency units (so 10 is 0.02 and 11 is      *)
(* 0.022); with that unit round(x, 2) never meets a tie.  A mean and a     *)
(* variance are exact fractions num/den, and the standard deviation, the   *)
(* square root of the variance, is only ever compared through its square.  *)
(*                                                                         *)
(* Strings.  A merchant is a sequence of one-character strings, so that    *)
(* strip() and lower() are computed character by character.                *)
(*                                                                         *)
(* Ghost state.  Every anomaly carries `row`, the position in the batch of *)
(* the transaction it was built from.  The program has no such field; it   *)
(* is never read by the modelled code (the sort key ignores it).  `earlier`*)
(* records the normalized merchants of the batches of earlier calls; the   *)
(* program keeps no such record.                                           *)
(*                                                                         *)
(* Further parts: _mean_std applied on its own (SpecMeanStd), a sequence   *)
(* of detector calls (SpecSequence), and the single-transaction check of   *)
(* services/receipt_ingestion.py and intelligence/anomaly.py over the      *)
(* history kept by data/db.py (SpecHistory).  In SpecHistory an amount is  *)
(* a whole number of currency units.                                       *)
(***************************************************************************)
EXTENDS Integers, Sequences, FiniteSets, TLC

VARIABLES
    rows,       \* the batch handed to the current call of detect_anomalies
    pc,         \* "idle" | "called" | "returned"
    locals,     \* the names the current call has bound so far
    overall,    \* (overall_mean, overall_std) as computed at line 38
    by_cat,     \* category -> list of abs amounts       (line 40, 45)
    by_merchant_amount, \* (m_norm, rounded amt) -> count (line 41, 46)
    cat_stats,  \* category -> _mean_std(by_cat[c])      (line 49)
    seen_merchants,     \* the set of m_norm             (line 42, 47)
    merchant_counts,    \* m_norm -> count               (line 76-78)
    result,     \* the list the call returned
    earlier,    \* ghost: normalized merchants of the batches of earlier calls
    ms_values,  \* the argument of the last call of _mean_std on its own
    ms_out,     \* what that call returned
    db,         \* the transactions table, in insertion order
    last,       \* the last call made against the history, with its result
    flow,       \* the receipt flow of the CLI: where it stands and what it holds
    stmt,       \* the last call of confirm_statement_transactions, with its result
    budgets,    \* the budgets table, with a ghost record of the limits last set
    ledger      \* the JSON ledger file, with a ghost record of the calls made

detectorVars == <<rows, pc, locals, overall, by_cat, by_merchant_amount,
                  seen_merchants, cat_stats, merchant_counts, result, earlier>>

meanStdVars == <<ms_values, ms_out>>

historyVars == <<db, last>>

receiptVars == <<flow>>

statementVars == <<stmt>>

budgetVars == <<budgets>>

ledgerVars == <<ledger>>

\* the receipt flow, the statement confirmation, the budgets and the ledger
restVars == <<receiptVars, statementVars, budgetVars, ledgerVars>>

vars == <<detectorVars, meanStdVars, historyVars, restVars>>

\* what the detector leaves alone
notDetector == <<meanStdVars, historyVars, restVars>>

\* what _mean_std on its own leaves alone
notMeanStd == <<detectorVars, historyVars, restVars>>

\* what the history and the single-transaction check leave alone
notHistory == <<detectorVars, meanStdVars, restVars>>

\* what the receipt flow leaves alone (it reads and writes the history)
notReceipt == <<detectorVars, meanStdVars, last, statementVars, budgetVars, ledgerVars>>

\* what confirm_statement_transactions leaves alone
notStatement == <<detectorVars, meanStdVars, historyVars, receiptVars, budgetVars, ledgerVars>>

\* what set_budget and get_budgets leave alone, the transactions table apart
notBudget == <<detectorVars, meanStdVars, receiptVars, statementVars, ledgerVars>>

\* what save_transaction leaves alone
notLedger == <<detectorVars, meanStdVars, historyVars, receiptVars, statementVars, budgetVars>>

----------------------------------------------------------------------------
(* Bounds of the checked inputs *)

\* the longest run of identical filler rows in a batch
MaxPad == 10
\* the number of freely chosen rows that follow the run
MaxTail == 2

(* Program constants *)

\* the z-score cutoff of Rules A and B (">= 3.0")
ZCutoff == 3
\* the repetition cutoff of Rule C (">= 3")
DupCutoff == 3

----------------------------------------------------------------------------
(* Arithmetic helpers *)

Abs(x) == IF x < 0 THEN -x ELSE x

Max(a, b) == IF a >= b THEN a ELSE b

\* round(x, 2) for x >= 0 counted in units of 0.002: the nearest multiple of
\* 5 units (0.01); x mod 5 is 1 or 2 (down) or 3 or 4 (up), never a tie.
Round2(x) == ((x + 2) \div 5) * 5

RECURSIVE SumSeq(_)
SumSeq(s) == IF s = <<>> THEN 0 ELSE Head(s) + SumSeq(Tail(s))

----------------------------------------------------------------------------
(* str.strip() and str.lower() *)

IsSpace(ch) == ch = " "

LowerChar(ch) ==
    CASE ch = "T" -> "t"
      [] ch = "E" -> "e"
      [] ch = "R" -> "r"
      [] ch = "S" -> "s"
      [] ch = "Y" -> "y"
      [] ch = "A" -> "a"
      [] ch = "L" -> "l"
      [] ch = "N" -> "n"
      [] ch = "O" -> "o"
      [] OTHER -> ch

Lower(m) == [i \in 1..Len(m) |-> LowerChar(m[i])]

RECURSIVE LStrip(_)
LStrip(m) == IF m # <<>> /\ IsSpace(Head(m)) THEN LStrip(Tail(m)) ELSE m

RECURSIVE RStrip(_)
RStrip(m) ==
    IF m # <<>> /\ IsSpace(m[Len(m)]) THEN RStrip(SubSeq(m, 1, Len(m) - 1)) ELSE m

Strip(m) == RStrip(LStrip(m))

\* a variant of NormMerchant: the merchant lower-cased but not trimmed
NormMerchant_NoStrip(m) == Lower(m)

\* m.strip().lower()
NormMerchant(m) == Lower(Strip(m))

----------------------------------------------------------------------------
(* _mean_std *)

\* a variant of MeanStd: the squared distances divided by n, not by n - 1
MeanStd_Population(values) ==
    IF values = <<>>
    THEN [mnum |-> 0, mden |-> 1, vnum |-> 0, vden |-> 1]
    ELSE LET n == Len(values)
             s == SumSeq(values)
         IN  [mnum |-> s,
              mden |-> n,
              vnum |-> SumSeq([i \in 1..n |-> (n * values[i] - s) * (n * values[i] - s)]),
              vden |-> n * n * n]

\* (0.0, 0.0) for no values; otherwise m = sum/n and
\* var = sum((x - m)^2)/max(n - 1, 1), here with (x - m)^2 = (n*x - sum)^2/n^2.
\* The returned std is sqrt(vnum/vden).
MeanStd(values) ==
    IF values = <<>>
    THEN [mnum |-> 0, mden |-> 1, vnum |-> 0, vden |-> 1]
    ELSE LET n == Len(values)
             s == SumSeq(values)
         IN  [mnum |-> s,
              mden |-> n,
              vnum |-> SumSeq([i \in 1..n |-> (n * values[i] - s) * (n * values[i] - s)]),
              vden |-> n * n * Max(n - 1, 1)]

\* a variant of StdPositive: "std >= 0" written for "std > 0"
StdPositive_NonNegative(st) == st.vnum >= 0

\* std > 0
StdPositive(st) == st.vnum > 0

\* a variant of ZScoreAtLeastCutoff: "> 3.0" written for ">= 3.0"
ZScoreAtLeastCutoff_Strict(amt, st) ==
    /\ amt * st.mden - st.mnum >= 0
    /\ (amt * st.mden - st.mnum) * (amt * st.mden - st.mnum) * st.vden
         > ZCutoff * ZCutoff * st.vnum * st.mden * st.mden

\* a variant of ZScoreAtLeastCutoff: the distance from the mean compared
\* with the cutoff on both sides of the mean
ZScoreAtLeastCutoff_TwoSided(amt, st) ==
    (amt * st.mden - st.mnum) * (amt * st.mden - st.mnum) * st.vden
        >= ZCutoff * ZCutoff * st.vnum * st.mden * st.mden

\* (amt - mean) / std >= 3.0, given std > 0: the numerator is not negative
\* and its square is at least 9 * var.
ZScoreAtLeastCutoff(amt, st) ==
    /\ amt * st.mden - st.mnum >= 0
    /\ (amt * st.mden - st.mnum) * (amt * st.mden - st.mnum) * st.vden
         >= ZCutoff * ZCutoff * st.vnum * st.mden * st.mden

----------------------------------------------------------------------------
(* detect_anomalies: the indices and baselines built at lines 36-49 *)

\* amounts = [abs(r[2]) for r in rows]
Amounts(rs) == [i \in 1..Len(rs) |-> Abs(rs[i].amount)]

\* a variant of MerchantAmountKey: the amount rounded with its sign
MerchantAmountKey_Signed(r) == <<NormMerchant(r.merchant), Round2(r.amount)>>

\* the key of by_merchant_amount: (m.strip().lower(), round(abs(a), 2))
MerchantAmountKey(r) == <<NormMerchant(r.merchant), Round2(Abs(r.amount))>>

\* a variant of MerchantKey: the merchant counted as typed, not normalized
MerchantKey_Raw(r) == r.merchant

\* the key of merchant_counts and of seen_merchants: m.strip().lower()
MerchantKey(r) == NormMerchant(r.merchant)

\* by_cat[c].append(abs(a)) over the rows in order
ByCat(rs) ==
    [c \in {rs[i].category : i \in 1..Len(rs)} |->
        Amounts(SelectSeq(rs, LAMBDA r : r.category = c))]

\* by_merchant_amount[key] += 1 over the rows
ByMerchantAmount(rs) ==
    [k \in {MerchantAmountKey(rs[i]) : i \in 1..Len(rs)} |->
        Cardinality({i \in 1..Len(rs) : MerchantAmountKey(rs[i]) = k})]

\* seen_merchants.add(m.strip().lower()) over the rows
SeenMerchants(rs) == {NormMerchant(rs[i].merchant) : i \in 1..Len(rs)}

\* cat_stats = {c: _mean_std(vals) for c, vals in by_cat.items()}
CatStats(bc) == [c \in DOMAIN bc |-> MeanStd(bc[c])]

\* merchant_counts[m.strip().lower()] += 1 over the rows
MerchantCounts(rs) ==
    [k \in {MerchantKey(rs[i]) : i \in 1..Len(rs)} |->
        Cardinality({i \in 1..Len(rs) : MerchantKey(rs[i]) = k})]

\* a defaultdict(int) read: 0 for a key never counted
CountOf(d, k) == IF k \in DOMAIN d THEN d[k] ELSE 0

\* a variant of StatsOf: the lookup made with a key that is no category
\* (cat_stats.get(m_norm, (0.0, 0.0))), so it always yields the default
StatsOf_Miss(cs, c) == MeanStd(<<>>)

\* cat_stats.get(c, (0.0, 0.0))
StatsOf(cs, c) == IF c \in DOMAIN cs THEN cs[c] ELSE MeanStd(<<>>)

----------------------------------------------------------------------------
(* detect_anomalies: the rules *)

ReasonA == "Unusually large vs your overall spend pattern"
ReasonB(c) == "Unusually large for category '" \o c \o "'"
ReasonC == "Repeated same amount at same merchant (possible duplicate/recurring)"
ReasonD == "New/rare merchant in recent period"

\* a variant of Anomaly: the entry built from the values the rules worked
\* with (normalized merchant, absolute amount), not from the row's own
Anomaly_Normalized(r, i, reason, severity) ==
    [date |-> r.date, merchant |-> NormMerchant(r.merchant), amount |-> Abs(r.amount),
     category |-> r.category, reason |-> reason, severity |-> severity,
     row |-> i]

\* Anomaly(d, m, a, c, reason, severity); `row` is the ghost position
Anomaly(r, i, reason, severity) ==
    [date |-> r.date, merchant |-> r.merchant, amount |-> r.amount,
     category |-> r.category, reason |-> reason, severity |-> severity,
     row |-> i]

\* overall_std > 0 and (amt - overall_mean) / overall_std >= 3.0
RuleA(r, ov) ==
    StdPositive(ov) /\ ZScoreAtLeastCutoff(Abs(r.amount), ov)

\* cat_std > 0 and (amt - cat_mean) / cat_std >= 3.0
RuleB(r, cs) ==
    LET st == StatsOf(cs, r.category)
    IN  StdPositive(st) /\ ZScoreAtLeastCutoff(Abs(r.amount), st)

\* a variant of RuleC: any key that was counted at all is a repetition
RuleC_AnyRepeat(r, bma) == CountOf(bma, MerchantAmountKey(r)) >= 1

\* a variant of RuleC: "> 3" written for ">= 3"
RuleC_MoreThan(r, bma) == CountOf(bma, MerchantAmountKey(r)) > DupCutoff

\* by_merchant_amount[(m_norm, round(amt, 2))] >= 3
RuleC(r, bma) == CountOf(bma, MerchantAmountKey(r)) >= DupCutoff

\* a variant of RuleD: a merchant is new only if no earlier call saw it
RuleD_SeenBefore(r, mc) ==
    CountOf(mc, MerchantKey(r)) = 1 /\ MerchantKey(r) \notin earlier

\* merchant_counts[m.strip().lower()] == 1
RuleD(r, mc) == CountOf(mc, MerchantKey(r)) = 1

\* a variant of PrimaryEntry: the three `continue` statements left out
PrimaryEntry_NoContinue(rs, i, ov, cs, bma) ==
    LET r == rs[i]
    IN  (IF RuleA(r, ov) THEN <<Anomaly(r, i, ReasonA, "high")>> ELSE <<>>)
        \o (IF RuleB(r, cs) THEN <<Anomaly(r, i, ReasonB(r.category), "high")>> ELSE <<>>)
        \o (IF RuleC(r, bma) THEN <<Anomaly(r, i, ReasonC, "medium")>> ELSE <<>>)

\* a variant of PrimaryEntry: Rule C tested before Rules A and B
PrimaryEntry_CFirst(rs, i, ov, cs, bma) ==
    LET r == rs[i]
    IN  IF RuleC(r, bma) THEN <<Anomaly(r, i, ReasonC, "medium")>>
        ELSE IF RuleA(r, ov) THEN <<Anomaly(r, i, ReasonA, "high")>>
        ELSE IF RuleB(r, cs) THEN <<Anomaly(r, i, ReasonB(r.category), "high")>>
        ELSE <<>>

\* one iteration of the loop of lines 53-71: what it appends
PrimaryEntry(rs, i, ov, cs, bma) ==
    LET r == rs[i]
    IN  IF RuleA(r, ov) THEN <<Anomaly(r, i, ReasonA, "high")>>
        ELSE IF RuleB(r, cs) THEN <<Anomaly(r, i, ReasonB(r.category), "high")>>
        ELSE IF RuleC(r, bma) THEN <<Anomaly(r, i, ReasonC, "medium")>>
        ELSE <<>>

\* the loop of lines 53-71, from row i on
RECURSIVE PrimaryPass(_, _, _, _, _)
PrimaryPass(rs, i, ov, cs, bma) ==
    IF i > Len(rs) THEN <<>>
    ELSE PrimaryEntry(rs, i, ov, cs, bma) \o PrimaryPass(rs, i + 1, ov, cs, bma)

\* a variant of SecondaryEntry: no low entry for a row Rule A already flagged
SecondaryEntry_Dedup(rs, i, mc) ==
    IF RuleD(rs[i], mc) /\ ~RuleA(rs[i], MeanStd(Amounts(rs)))
    THEN <<Anomaly(rs[i], i, ReasonD, "low")>>
    ELSE <<>>

\* one iteration of the loop of lines 80-82: what it appends
SecondaryEntry(rs, i, mc) ==
    IF RuleD(rs[i], mc) THEN <<Anomaly(rs[i], i, ReasonD, "low")>> ELSE <<>>

\* the loop of lines 80-82, from row i on
RECURSIVE SecondaryPass(_, _, _)
SecondaryPass(rs, i, mc) ==
    IF i > Len(rs) THEN <<>>
    ELSE SecondaryEntry(rs, i, mc) \o SecondaryPass(rs, i + 1, mc)

----------------------------------------------------------------------------
(* detect_anomalies: the final sort *)

\* sev_rank.get(x.severity, 9)
SevRank(sev) ==
    CASE sev = "high" -> 0
      [] sev = "medium" -> 1
      [] sev = "low" -> 2
      [] OTHER -> 9

\* a variant of SortKeyLess: the key (sev_rank, abs(amount)), the minus lost
SortKeyLess_AmountAscending(a, b) ==
    \/ SevRank(a.severity) < SevRank(b.severity)
    \/ /\ SevRank(a.severity) = SevRank(b.severity)
       /\ Abs(a.amount) < Abs(b.amount)

\* the key (sev_rank, -abs(amount)) of a is smaller than that of b
SortKeyLess(a, b) ==
    \/ SevRank(a.severity) < SevRank(b.severity)
    \/ /\ SevRank(a.severity) = SevRank(b.severity)
       /\ -Abs(a.amount) < -Abs(b.amount)

\* a variant of InsertSorted: x put before the entries whose key is equal
RECURSIVE InsertSorted_BeforeEqual(_, _)
InsertSorted_BeforeEqual(x, s) ==
    IF s = <<>> THEN <<x>>
    ELSE IF ~SortKeyLess(Head(s), x) THEN <<x>> \o s
    ELSE <<Head(s)>> \o InsertSorted_BeforeEqual(x, Tail(s))

\* x put into the sorted list s behind every entry whose key is not larger
RECURSIVE InsertSorted(_, _)
InsertSorted(x, s) ==
    IF s = <<>> THEN <<x>>
    ELSE IF SortKeyLess(x, Head(s)) THEN <<x>> \o s
    ELSE <<Head(s)>> \o InsertSorted(x, Tail(s))

\* list.sort(key=...): a stable sort
RECURSIVE SortAnomalies(_)
SortAnomalies(s) ==
    IF s = <<>> THEN <<>>
    ELSE InsertSorted(s[Len(s)], SortAnomalies(SubSeq(s, 1, Len(s) - 1)))

\* a variant of RankedAnomalies: the second pass run twice
RankedAnomalies_SecondPassTwice(rs, ov, cs, bma, mc) ==
    SortAnomalies(PrimaryPass(rs, 1, ov, cs, bma) \o SecondaryPass(rs, 1, mc)
                      \o SecondaryPass(rs, 1, mc))

\* lines 51-88: both passes over the rows, then the sort
RankedAnomalies(rs, ov, cs, bma, mc) ==
    SortAnomalies(PrimaryPass(rs, 1, ov, cs, bma) \o SecondaryPass(rs, 1, mc))

\* the value detect_anomalies returns
DetectAnomalies(rs) ==
    IF rs = <<>> THEN <<>>
    ELSE RankedAnomalies(rs, MeanStd(Amounts(rs)), CatStats(ByCat(rs)),
                         ByMerchantAmount(rs), MerchantCounts(rs))

----------------------------------------------------------------------------
(* The batches the detector is called on *)

Tesco == <<"T", "e">>
TescoVariant == <<" ", "t", "E", " ">>
RareShop == <<"R", " ", "S">>
Spar == <<"S">>

Row(d, m, a, c, s) ==
    [date |-> d, merchant |-> m, amount |-> a, category |-> c, source |-> s]

\* the row a run of identical transactions is made of: 0.02 at Tesco
FillerRow == Row("2024-01-01", Tesco, 10, "Food", "statement")

\* the rows that may follow the run
ExtraRows ==
    { Row("2024-01-02", TescoVariant, 11, "Food", "receipt"),
      Row("2024-01-02", TescoVariant, -10, "Food", "manual"),
      Row("2024-01-03", RareShop, 20, "Shopping", "manual"),
      Row("2024-01-03", RareShop, 19, "Shopping", "receipt"),
      Row("2024-01-04", Spar, 9, "Shopping", "manual"),
      Row("2024-01-04", Tesco, 20, "Food", "import"),
      Row("2024-01-05", Spar, -25, "Other", "statement"),
      Row("2024-01-05", Spar, 9, "Food", "receipt") }

SeqsUpTo(S, n) == UNION {[1..k -> S] : k \in 0..n}

Pad(k) == [i \in 1..k |-> FillerRow]

\* k filler rows, then the freely chosen rows
InputBatches ==
    { Pad(k) \o tail : k \in 0..MaxPad, tail \in SeqsUpTo(ExtraRows, MaxTail) }

----------------------------------------------------------------------------
(* The state machine: a caller calls detect_anomalies and drops the result *)

NoStats == [mnum |-> 0, mden |-> 0, vnum |-> 0, vden |-> 0]

\* no call has been made against the history yet
NoCall == [op |-> "none"]

\* the CLI is at its prompt, no receipt in hand
NoFlow == [pc |-> "prompt"]

\* confirm_statement_transactions has not been called yet
NoStatement == [pc |-> "none"]

\* the budgets table as _create_tables makes it; `latest` is ghost state, the
\* limit each category was last given, which the program does not keep
NoBudgets == [table |-> <<>>, latest |-> <<>>]

\* data/transactions.json does not exist; `calls` is ghost state, the
\* transactions save_transaction has been called with so far
NoLedger == [exists |-> FALSE, text |-> <<>>, calls |-> <<>>]

Init ==
    /\ rows = <<>>
    /\ pc = "idle"
    /\ locals = {}
    /\ overall = NoStats
    /\ by_cat = <<>>
    /\ by_merchant_amount = <<>>
    /\ seen_merchants = {}
    /\ cat_stats = <<>>
    /\ merchant_counts = <<>>
    /\ result = <<>>
    /\ earlier = {}
    /\ ms_values = <<>>
    /\ ms_out = NoStats
    /\ db = <<>>
    /\ last = NoCall
    /\ flow = NoFlow
    /\ stmt = NoStatement
    /\ budgets = NoBudgets
    /\ ledger = NoLedger

\* a caller enters detect_anomalies(batch): a fresh frame, nothing bound yet
Call(batch) ==
    /\ pc = "idle"
    /\ rows' = batch
    /\ pc' = "called"
    /\ UNCHANGED <<locals, overall, by_cat, by_merchant_amount, seen_merchants,
                   cat_stats, merchant_counts, result, earlier>>
    /\ UNCHANGED notDetector

\* a variant of DetectEmpty: the guard of lines 33-34 left out, so the body
\* runs on the empty batch
DetectEmpty_NoGuard ==
    /\ pc = "called"
    /\ rows = <<>>
    /\ overall' = MeanStd(Amounts(rows))
    /\ by_cat' = ByCat(rows)
    /\ by_merchant_amount' = ByMerchantAmount(rows)
    /\ seen_merchants' = SeenMerchants(rows)
    /\ cat_stats' = CatStats(by_cat')
    /\ merchant_counts' = MerchantCounts(rows)
    /\ locals' = {"amounts", "overall_mean", "overall_std", "by_cat",
                  "by_merchant_amount", "seen_merchants", "cat_stats",
                  "anomalies", "merchant_counts", "sev_rank"}
    /\ result' = <<>>
    /\ pc' = "returned"
    /\ UNCHANGED <<rows, earlier>>
    /\ UNCHANGED notDetector

\* lines 33-34: if not rows: return []
DetectEmpty ==
    /\ pc = "called"
    /\ rows = <<>>
    /\ result' = <<>>
    /\ pc' = "returned"
    /\ UNCHANGED <<rows, locals, overall, by_cat, by_merchant_amount,
                   seen_merchants, cat_stats, merchant_counts, earlier>>
    /\ UNCHANGED notDetector

\* a variant of RowsAfterRun: the batch reversed in place
RowsAfterRun_Reversed(rs) == [i \in 1..Len(rs) |-> rs[Len(rs) + 1 - i]]

\* the caller's list after the body has run: the body only iterates over
\* rows (lines 37, 41, 53, 76, 80) and sorts its own list `anomalies`
RowsAfterRun(rs) == rs

\* std == 0.0
ZeroDivisor(st) == st.vnum = 0

\* a quotient of line 58 or line 64 is evaluated with a zero divisor: the
\* quotient is only evaluated when the `std > 0` before `and` holds, line 58
\* for every row and line 64 for the rows Rule A did not flag
DivisionByZero(rs, ov, cs) ==
    \E i \in 1..Len(rs) :
        \/ StdPositive(ov) /\ ZeroDivisor(ov)
        \/ /\ ~RuleA(rs[i], ov)
           /\ StdPositive(StatsOf(cs, rs[i].category))
           /\ ZeroDivisor(StatsOf(cs, rs[i].category))

\* lines 36-88: baselines, indices, both passes, the sort, the return; a
\* ZeroDivisionError leaves the call without a result
DetectRun ==
    /\ pc = "called"
    /\ rows # <<>>
    /\ overall' = MeanStd(Amounts(rows))
    /\ by_cat' = ByCat(rows)
    /\ by_merchant_amount' = ByMerchantAmount(rows)
    /\ seen_merchants' = SeenMerchants(rows)
    /\ cat_stats' = CatStats(by_cat')
    /\ merchant_counts' = MerchantCounts(rows)
    /\ locals' = {"amounts", "overall_mean", "overall_std", "by_cat",
                  "by_merchant_amount", "seen_merchants", "cat_stats",
                  "anomalies", "merchant_counts", "sev_rank"}
    /\ IF DivisionByZero(rows, overall', cat_stats')
       THEN result' = <<>> /\ pc' = "raised"
       ELSE /\ result' = RankedAnomalies(rows, overall', cat_stats',
                                         by_merchant_amount', merchant_counts')
            /\ pc' = "returned"
    /\ rows' = RowsAfterRun(rows)
    /\ UNCHANGED earlier
    /\ UNCHANGED notDetector

\* the caller is done with the returned list; the frame is gone
Discard ==
    /\ pc \in {"returned", "raised"}
    /\ rows' = <<>>
    /\ pc' = "idle"
    /\ locals' = {}
    /\ overall' = NoStats
    /\ by_cat' = <<>>
    /\ by_merchant_amount' = <<>>
    /\ seen_merchants' = {}
    /\ cat_stats' = <<>>
    /\ merchant_counts' = <<>>
    /\ result' = <<>>
    /\ UNCHANGED earlier
    /\ UNCHANGED notDetector

Next ==
    \/ \E batch \in InputBatches : Call(batch)
    \/ DetectEmpty
    \/ DetectRun
    \/ Discard

Spec == Init /\ [][Next]_vars

----------------------------------------------------------------------------
(* A sequence of calls, with a record of what earlier calls were given *)

\* the batches of the sequence: the freely chosen rows alone, or behind the
\* longest run of identical rows
SequenceBatches ==
    { Pad(k) \o tail : k \in {0, MaxPad}, tail \in SeqsUpTo(ExtraRows, MaxTail) }

\* the frame is dropped as in Discard; the ghost record takes up the
\* merchants of the batch
DiscardRecorded ==
    /\ pc \in {"returned", "raised"}
    /\ earlier' = earlier \cup {NormMerchant(rows[i].merchant) : i \in 1..Len(rows)}
    /\ rows' = <<>>
    /\ pc' = "idle"
    /\ locals' = {}
    /\ overall' = NoStats
    /\ by_cat' = <<>>
    /\ by_merchant_amount' = <<>>
    /\ seen_merchants' = {}
    /\ cat_stats' = <<>>
    /\ merchant_counts' = <<>>
    /\ result' = <<>>
    /\ UNCHANGED notDetector

NextSequence ==
    \/ \E batch \in SequenceBatches : Call(batch)
    \/ DetectEmpty
    \/ DetectRun
    \/ DiscardRecorded

SpecSequence == Init /\ [][NextSequence]_vars

----------------------------------------------------------------------------
(* The history (data/db.py) and the single-transaction check               *)
(* (services/receipt_ingestion.py, intelligence/anomaly.py).  A stored row *)
(* is kept with its merchant and amount, the columns the two queries read; *)
(* amounts are whole currency units.                                       *)

\* the most rows the history holds
MaxHistory == 2

\* amount >= 100
HighAmount == 100

\* amount >= 40
NewMerchantAmount == 40

\* amount >= (avg_amt * 3)
AverageFactor == 3

\* INSERT INTO transactions: the row as given
StoredRow(m, a) == [merchant |-> m, amount |-> a]

\* SELECT 1 FROM transactions WHERE lower(merchant)=lower(?) LIMIT 1
MerchantExists(d, merchant) ==
    \E k \in 1..Len(d) : Lower(d[k].merchant) = Lower(merchant)

\* SELECT AVG(amount) FROM transactions, 0.0 for no rows: the fraction num/den
AvgAmount(d) ==
    IF d = <<>> THEN [num |-> 0, den |-> 1]
    ELSE [num |-> SumSeq([k \in 1..Len(d) |-> d[k].amount]), den |-> Len(d)]

\* f"{avg_amt:.2f}" for avg_amt > 0: rounded to the nearest hundredth
FormatMoney(avg) ==
    LET cents == (200 * avg.num + avg.den) \div (2 * avg.den)
        frac == cents % 100
    IN  ToString(cents \div 100) \o "."
            \o (IF frac < 10 THEN "0" ELSE "") \o ToString(frac)

ReasonHighAmount == "High amount (>= £100)."

ReasonNewMerchant == "New merchant and amount >= £40."

ReasonAboveAverage(avg) ==
    "Amount is >= 3x your average transaction (£" \o FormatMoney(avg) \o ")."

\* a variant of AboveAverage: the test `avg_amt > 0` left out
AboveAverage_NoGuard(amount, avg) == amount * avg.den >= AverageFactor * avg.num

\* avg_amt > 0 and amount >= (avg_amt * 3)
AboveAverage(amount, avg) ==
    avg.num > 0 /\ amount * avg.den >= AverageFactor * avg.num

\* a variant of LooksLikeAnomaly: the three rules as if / elif / elif
LooksLikeAnomaly_Elif(d, merchant, amount) ==
    IF amount >= HighAmount THEN <<ReasonHighAmount>>
    ELSE IF ~MerchantExists(d, merchant) /\ amount >= NewMerchantAmount
    THEN <<ReasonNewMerchant>>
    ELSE IF AboveAverage(amount, AvgAmount(d))
    THEN <<ReasonAboveAverage(AvgAmount(d))>>
    ELSE <<>>

\* a variant of LooksLikeAnomaly: ">" written for ">=" in rules 1 and 2
LooksLikeAnomaly_Strict(d, merchant, amount) ==
    LET avg_amt == AvgAmount(d)
    IN  (IF amount > HighAmount THEN <<ReasonHighAmount>> ELSE <<>>)
        \o (IF ~MerchantExists(d, merchant) /\ amount > NewMerchantAmount
            THEN <<ReasonNewMerchant>> ELSE <<>>)
        \o (IF AboveAverage(amount, avg_amt)
            THEN <<ReasonAboveAverage(avg_amt)>> ELSE <<>>)

\* _looks_like_anomaly(db, merchant, amount)
LooksLikeAnomaly(d, merchant, amount) ==
    LET avg_amt == AvgAmount(d)
    IN  (IF amount >= HighAmount THEN <<ReasonHighAmount>> ELSE <<>>)
        \o (IF ~MerchantExists(d, merchant) /\ amount >= NewMerchantAmount
            THEN <<ReasonNewMerchant>> ELSE <<>>)
        \o (IF AboveAverage(amount, avg_amt)
            THEN <<ReasonAboveAverage(avg_amt)>> ELSE <<>>)

\* hasattr(db, "merchant_exists"), hasattr(db, "avg_amount"): db is a FinanceDB
HasAttr == TRUE

\* a variant of IntelligenceDetectAnomalies: the new-merchant rule tried first
IntelligenceDetectAnomalies_NewFirst(d, merchant, amount) ==
    (IF HasAttr /\ ~MerchantExists(d, merchant) /\ amount >= NewMerchantAmount
     THEN <<ReasonNewMerchant>> ELSE <<>>)
    \o (IF amount >= HighAmount THEN <<ReasonHighAmount>> ELSE <<>>)
    \o (IF HasAttr /\ AboveAverage(amount, AvgAmount(d))
        THEN <<ReasonAboveAverage(AvgAmount(d))>> ELSE <<>>)

\* intelligence.anomaly.detect_anomalies(db, merchant, amount)
IntelligenceDetectAnomalies(d, merchant, amount) ==
    (IF amount >= HighAmount THEN <<ReasonHighAmount>> ELSE <<>>)
    \o (IF HasAttr /\ ~MerchantExists(d, merchant) /\ amount >= NewMerchantAmount
        THEN <<ReasonNewMerchant>> ELSE <<>>)
    \o (IF HasAttr /\ AboveAverage(amount, AvgAmount(d))
        THEN <<ReasonAboveAverage(AvgAmount(d))>> ELSE <<>>)

TescoLower == <<"t", "e">>

\* what is stored
StoredMerchants == {Tesco, TescoVariant}

StoredAmounts == {10, 100, -50}

\* what is asked about
QueryMerchants == {Tesco, TescoLower, TescoVariant, Spar}

QueryAmounts == {10, 29, 30, 39, 40, 99, 100}

\* FinanceDB.add_transaction
AddTransaction(m, a) ==
    /\ Len(db) < MaxHistory
    /\ db' = Append(db, StoredRow(m, a))
    /\ last' = [op |-> "add_transaction", merchant |-> m, amount |-> a]
    /\ UNCHANGED notHistory

\* FinanceDB.merchant_exists
MerchantExistsCall(m) ==
    /\ last' = [op |-> "merchant_exists", merchant |-> m,
                found |-> MerchantExists(db, m)]
    /\ UNCHANGED db
    /\ UNCHANGED notHistory

\* _looks_like_anomaly, as confirm_transaction calls it
LooksLikeAnomalyCall(m, a) ==
    /\ last' = [op |-> "_looks_like_anomaly", merchant |-> m, amount |-> a,
                reasons |-> LooksLikeAnomaly(db, m, a)]
    /\ UNCHANGED db
    /\ UNCHANGED notHistory

\* intelligence.anomaly.detect_anomalies
IntelligenceCall(m, a) ==
    /\ last' = [op |-> "intelligence.detect_anomalies", merchant |-> m, amount |-> a,
                reasons |-> IntelligenceDetectAnomalies(db, m, a)]
    /\ UNCHANGED db
    /\ UNCHANGED notHistory

NextHistory ==
    \/ \E m \in StoredMerchants, a \in StoredAmounts : AddTransaction(m, a)
    \/ \E m \in QueryMerchants : MerchantExistsCall(m)
    \/ \E m \in QueryMerchants, a \in QueryAmounts : LooksLikeAnomalyCall(m, a)
    \/ \E m \in QueryMerchants, a \in QueryAmounts : IntelligenceCall(m, a)

SpecHistory == Init /\ [][NextHistory]_vars

----------------------------------------------------------------------------
(* The receipt flow: confirm_transaction (services/receipt_ingestion.py)   *)
(* and the CLI branch that calls it (interfaces/cli.py 202-229).  The text *)
(* handed over is kept as what json.loads makes of it.                     *)

\* Python's None, where a string is expected
NoneValue == "None"

\* an optional value: <<>> for None or a missing key, <<v>> for the value v
Absent == <<>>

Present(v) == <<v>>

\* key in m, for sequences of characters
Contains(m, key) ==
    \E k \in 0..(Len(m) - Len(key)) : SubSeq(m, k + 1, k + Len(key)) = key

\* rule_based_category(merchant), with the one rule the merchants here can
\* meet: "te", the model's spelling of "tesco", -> Food
RuleBasedCategory(merchant) ==
    IF Contains(Lower(Strip(merchant)), <<"t", "e">>) THEN "Food" ELSE NoneValue

\* llm_category.lower() == "other"
IsOther(category) == category \in {"other", "Other", "OTHER"}

\* lines 56-81: the category the transaction is proposed with
FinalCategory(merchant, llm_category, typed) ==
    LET rule_cat == RuleBasedCategory(merchant)
        unsure == \/ llm_category = ""
                  \/ IsOther(llm_category)
                  \/ (rule_cat # NoneValue /\ rule_cat # llm_category)
        final_category == IF llm_category # "" THEN llm_category ELSE "Other"
    IN  IF ~unsure THEN final_category
        ELSE IF typed # "" THEN typed
        ELSE IF rule_cat # NoneValue THEN rule_cat
        ELSE final_category

\* input(...).strip().lower() in ("y", "yes")
Confirmed(answer) == Lower(Strip(answer)) \in { <<"y">>, <<"y", "e", "s">> }

\* a variant of Blocked: a transaction with warnings is not offered for saving
Blocked_ByWarnings(reasons) == reasons # <<>>

\* whether the anomaly warnings keep the transaction from being returned:
\* lines 92-95 only print them
Blocked(reasons) == FALSE

\* confirm_transaction(parsed_json, db) with the user's two answers: what it
\* returns (tx, Absent for None), whether it raised, and the warnings it
\* printed; (data.get("merchant") or "") makes "" of a missing merchant
ConfirmOutcome(parsed, d, typed, answer) ==
    IF parsed.kind = "invalid"
    THEN [raised |-> FALSE, tx |-> Absent, reasons |-> <<>>]
    ELSE IF parsed.kind # "object"
    THEN [raised |-> TRUE, tx |-> Absent, reasons |-> <<>>]
    ELSE LET date_str == parsed.date
             merchant == Strip(parsed.merchant)
             amount == IF parsed.total_amount = Absent THEN 0 ELSE parsed.total_amount[1]
         IN  IF merchant = <<>> \/ amount <= 0 \/ date_str \in {NoneValue, ""}
             THEN [raised |-> FALSE, tx |-> Absent, reasons |-> <<>>]
             ELSE LET anomaly_reasons == LooksLikeAnomaly(d, merchant, amount)
                  IN  IF ~Confirmed(answer) \/ Blocked(anomaly_reasons)
                      THEN [raised |-> FALSE, tx |-> Absent,
                            reasons |-> anomaly_reasons]
                      ELSE [raised |-> FALSE,
                            tx |-> Present([date |-> date_str, merchant |-> merchant,
                                            amount |-> amount,
                                            category |->
                                                FinalCategory(merchant, parsed.category,
                                                              typed)]),
                            reasons |-> anomaly_reasons]

\* what the receipt parser may hand over
ParsedTexts ==
    { [kind |-> "invalid"], [kind |-> "array"] }
    \cup [ kind : {"object"},
           date : {"2024-01-05", NoneValue},
           merchant : {Tesco, TescoVariant, <<" ", " ">>, Spar},
           total_amount : {Absent, Present(-5), Present(40), Present(100)},
           category : {"", "Shopping"} ]

\* what the user may type at the category prompt
TypedCategories == {"", "Bills"}

\* what the user may type at the save prompt
Answers ==
    { <<"y">>, <<"y", "e", "s">>, <<" ", "Y", "E", "S", " ">>, <<"n">>, <<>>,
      <<"y", "e", "s", "s">> }

\* cli.py 217: tx = confirm_transaction(parsed_json, db)
ConfirmTransaction(parsed, typed, answer) ==
    /\ flow.pc = "prompt"
    /\ Len(db) < MaxHistory
    /\ LET out == ConfirmOutcome(parsed, db, typed, answer)
       IN  flow' = [pc |-> IF out.raised THEN "raised" ELSE "confirmed",
                    parsed |-> parsed, answer |-> answer, before |-> db,
                    tx |-> out.tx, reasons |-> out.reasons]
    /\ UNCHANGED db
    /\ UNCHANGED notReceipt

\* cli.py 220-229: the row is inserted if a transaction came back
CliSave ==
    /\ flow.pc = "confirmed"
    /\ db' = IF flow.tx # Absent
             THEN Append(db, StoredRow(flow.tx[1].merchant, flow.tx[1].amount))
             ELSE db
    /\ flow' = [flow EXCEPT !.pc = "done"]
    /\ UNCHANGED notReceipt

\* cli.py 229: continue, back to the prompt
CliContinue ==
    /\ flow.pc = "done"
    /\ flow' = NoFlow
    /\ UNCHANGED db
    /\ UNCHANGED notReceipt

NextReceipt ==
    \/ \E parsed \in ParsedTexts, typed \in TypedCategories, answer \in Answers :
           ConfirmTransaction(parsed, typed, answer)
    \/ CliSave
    \/ CliContinue

SpecReceipt == Init /\ [][NextReceipt]_vars

----------------------------------------------------------------------------
(* confirm_statement_transactions (services/statement_ingestion.py).  A    *)
(* candidate is kept as its category; the candidates are objects, changed  *)
(* in place, so an entry of the result is the position of its candidate    *)
(* with the category that candidate ends with.                             *)

\* the most candidates a statement yields
MaxCandidates == 3

\* the candidate has no attribute `category`
Missing == "<missing>"

\* the categorisers a caller may pass: none, one that answers "Food", one
\* that answers "", one that raises
Categorisers == {"absent", "food", "empty", "raises"}

\* str(categoriser(merchant, amount)) for a categoriser that returns
CategoriserAnswer(categoriser) == IF categoriser = "food" THEN "Food" ELSE ""

\* _ensure_category(t, categoriser): the category t has afterwards
EnsureCategory(category, categoriser) ==
    LET given == IF category \in {Missing, NoneValue, ""} THEN "Uncategorised"
                 ELSE category
    IN  IF categoriser # "absent" /\ given = "Uncategorised"
        THEN IF categoriser = "raises" THEN given ELSE CategoriserAnswer(categoriser)
        ELSE given

\* choice.split(",")
RECURSIVE SplitComma(_)
SplitComma(s) ==
    IF \A k \in 1..Len(s) : s[k] # ","
    THEN <<s>>
    ELSE LET k == CHOOSE k \in 1..Len(s) : s[k] = "," /\ \A l \in 1..(k - 1) : s[l] # ","
         IN  <<SubSeq(s, 1, k - 1)>> \o SplitComma(SubSeq(s, k + 1, Len(s)))

Digits == {"0", "1", "2", "3", "4", "5", "6", "7", "8", "9"}

\* part.isdigit()
IsDigit(part) == part # <<>> /\ \A k \in 1..Len(part) : part[k] \in Digits

DigitValue(ch) ==
    CASE ch = "0" -> 0 [] ch = "1" -> 1 [] ch = "2" -> 2 [] ch = "3" -> 3
      [] ch = "4" -> 4 [] ch = "5" -> 5 [] ch = "6" -> 6 [] ch = "7" -> 7
      [] ch = "8" -> 8 [] ch = "9" -> 9

\* int(part)
RECURSIVE IntOf(_)
IntOf(part) ==
    IF part = <<>> THEN 0
    ELSE 10 * IntOf(SubSeq(part, 1, Len(part) - 1)) + DigitValue(part[Len(part)])

\* lines 79-83: the numbers typed
RECURSIVE Idxs(_)
Idxs(parts) ==
    IF parts = <<>> THEN <<>>
    ELSE LET part == Strip(Head(parts))
         IN  (IF IsDigit(part) THEN <<IntOf(part)>> ELSE <<>>) \o Idxs(Tail(parts))

\* lines 85-88: the positions selected
RECURSIVE Selected(_, _)
Selected(idxs, n) ==
    IF idxs = <<>> THEN <<>>
    ELSE (IF 1 <= Head(idxs) /\ Head(idxs) <= n THEN <<Head(idxs)>> ELSE <<>>)
         \o Selected(Tail(idxs), n)

\* confirm_statement_transactions(txs, categoriser) with the user's answer
ConfirmStatementTransactions(txs, categoriser, answer) ==
    IF txs = <<>> THEN <<>>
    ELSE LET normalised == [i \in 1..Len(txs) |-> EnsureCategory(txs[i], categoriser)]
             choice == Lower(Strip(answer))
         IN  IF choice \in { <<"n">>, <<"n", "o">>, <<"c", "a", "n", "c", "e", "l">>,
                             <<"q", "u", "i", "t">> }
             THEN <<>>
             ELSE IF choice = <<"a", "l", "l">>
             THEN [i \in 1..Len(txs) |-> [pos |-> i, category |-> normalised[i]]]
             ELSE LET selected == Selected(Idxs(SplitComma(choice)), Len(txs))
                  IN  [k \in 1..Len(selected) |->
                          [pos |-> selected[k],
                           category |-> EnsureCategory(normalised[selected[k]],
                                                       categoriser)]]

\* the categories the candidates come with
CandidateCategories == {Missing, NoneValue, "", "Uncategorised", "Food"}

CandidateLists == SeqsUpTo(CandidateCategories, MaxCandidates)

\* what the user may type at the prompt
Choices ==
    { <<"a", "l", "l">>, <<" ", "A", "L", "L", " ">>, <<"n">>, <<"N", "O">>,
      <<"q", "u", "i", "t">>, <<"c", "a", "n", "c", "e", "l">>, <<>>,
      <<"2", ",", "1">>, <<"1", ",", "1">>,
      <<"1", ",", " ", "3", " ", ",", "x", ",", "0", ",", "2">>,
      <<"0", "1", ",", "9">>, <<"1", "0">> }

\* one call of confirm_statement_transactions
ConfirmStatement(txs, categoriser, answer) ==
    /\ stmt.pc = "none"
    /\ stmt' = [pc |-> "returned", txs |-> txs, categoriser |-> categoriser,
                answer |-> answer,
                out |-> ConfirmStatementTransactions(txs, categoriser, answer)]
    /\ UNCHANGED notStatement

\* the caller is done with the list it got
StatementDone ==
    /\ stmt.pc = "returned"
    /\ stmt' = NoStatement
    /\ UNCHANGED notStatement

NextStatement ==
    \/ \E txs \in CandidateLists, categoriser \in Categorisers, answer \in Choices :
           ConfirmStatement(txs, categoriser, answer)
    \/ StatementDone

SpecStatement == Init /\ [][NextStatement]_vars

----------------------------------------------------------------------------
(* The budgets table (data/db.py 28-35, 148-162), next to the transactions *)

BudgetRow(category, monthly_limit) ==
    [category |-> category, monthly_limit |-> monthly_limit]

\* a variant of Upsert: INSERT OR IGNORE, the row that is there is kept
Upsert_KeepFirst(table, category, monthly_limit) ==
    IF \E k \in 1..Len(table) : table[k].category = category
    THEN table
    ELSE Append(table, BudgetRow(category, monthly_limit))

\* INSERT INTO budgets ... ON CONFLICT(category) DO UPDATE SET
\* monthly_limit=excluded.monthly_limit
Upsert(table, category, monthly_limit) ==
    IF \E k \in 1..Len(table) : table[k].category = category
    THEN [k \in 1..Len(table) |->
             IF table[k].category = category
             THEN BudgetRow(category, monthly_limit) ELSE table[k]]
    ELSE Append(table, BudgetRow(category, monthly_limit))

\* the ghost record after a call: f with category -> monthly_limit
Noted(f, category, monthly_limit) ==
    [c \in DOMAIN f \cup {category} |-> IF c = category THEN monthly_limit ELSE f[c]]

BudgetCategories == {"Food", "food", "Rent"}

BudgetLimits == {100, 250}

\* FinanceDB.set_budget(category, monthly_limit)
SetBudget(category, monthly_limit) ==
    /\ budgets' = [table |-> Upsert(budgets.table, category, monthly_limit),
                   latest |-> Noted(budgets.latest, category, monthly_limit)]
    /\ last' = [op |-> "set_budget", category |-> category,
                monthly_limit |-> monthly_limit]
    /\ UNCHANGED db
    /\ UNCHANGED notBudget

\* FinanceDB.get_budgets()
GetBudgets ==
    /\ last' = [op |-> "get_budgets", rows |-> budgets.table]
    /\ UNCHANGED <<db, budgets>>
    /\ UNCHANGED notBudget

NextBudget ==
    \/ \E c \in BudgetCategories, l \in BudgetLimits : SetBudget(c, l)
    \/ GetBudgets
    \/ AddTransaction(Tesco, 10)

SpecBudget == Init /\ [][NextBudget]_vars

----------------------------------------------------------------------------
(* The JSON ledger (services/ledger.py).  The file's text is kept as the   *)
(* JSON array it spells: a sequence of objects whose members are JSON      *)
(* strings and numbers.  A Python value is kept with its type.             *)

\* the most calls of save_transaction
MaxSaves == 3

PyStr(v) == [type |-> "str", v |-> v]

PyFloat(v) == [type |-> "float", v |-> v]

PyInt(v) == [type |-> "int", v |-> v]

\* a datetime.date, as Transaction.date is declared
PyDate(v) == [type |-> "date", v |-> v]

\* Transaction(date, merchant, amount, category).__dict__
TransactionDict(date, merchant, amount, category) ==
    [date |-> date, merchant |-> merchant, amount |-> amount, category |-> category]

\* json.dumps can encode the value: a date is not JSON serializable
Serializable(value) == value.type \in {"str", "float", "int"}

\* json.dumps of one value: a string, or a number written with or without
\* a fraction part
DumpValue(value) ==
    IF value.type = "str" THEN [json |-> "string", v |-> value.v]
    ELSE [json |-> IF value.type = "float" THEN "number.fraction" ELSE "number",
          v |-> value.v]

\* json.loads of one value
LoadValue(jv) ==
    IF jv.json = "string" THEN PyStr(jv.v)
    ELSE IF jv.json = "number.fraction" THEN PyFloat(jv.v)
    ELSE PyInt(jv.v)

Fields == {"date", "merchant", "amount", "category"}

\* json.dumps(transactions, indent=2)
Dumps(transactions) ==
    [k \in 1..Len(transactions) |-> [f \in Fields |-> DumpValue(transactions[k][f])]]

\* json.loads(LEDGER_PATH.read_text())
Loads(text) ==
    [k \in 1..Len(text) |-> [f \in Fields |-> LoadValue(text[k][f])]]

\* transactions.append(tx.__dict__)
Appended(transactions, entry) == Append(transactions, entry)

\* the transactions save_transaction is called with
LedgerTransactions ==
    { TransactionDict(d, PyStr("Te"), a, PyStr("Food")) :
          d \in {PyStr("2024-01-05"), PyStr("2024-01-06"), PyDate("2024-01-07")},
          a \in {PyFloat(40), PyInt(100)} }

\* the ledger exists and holds no transaction: "[]"
EmptyLedgerFile ==
    /\ ~ledger.exists
    /\ ledger.calls = <<>>
    /\ ledger' = [ledger EXCEPT !.exists = TRUE, !.text = <<>>]
    /\ UNCHANGED notLedger

\* save_transaction(tx); when json.dumps raises, write_text is not reached
SaveTransaction(tx) ==
    /\ Len(ledger.calls) < MaxSaves
    /\ LET transactions ==
               Appended(IF ledger.exists THEN Loads(ledger.text) ELSE <<>>, tx)
       IN  ledger' =
               IF \A k \in 1..Len(transactions) : \A f \in Fields :
                      Serializable(transactions[k][f])
               THEN [exists |-> TRUE, text |-> Dumps(transactions),
                     calls |-> Append(ledger.calls, tx)]
               ELSE [ledger EXCEPT !.calls = Append(ledger.calls, tx)]
    /\ UNCHANGED notLedger

NextLedger ==
    \/ EmptyLedgerFile
    \/ \E tx \in LedgerTransactions : SaveTransaction(tx)

SpecLedger == Init /\ [][NextLedger]_vars

----------------------------------------------------------------------------
(* _mean_std applied on its own *)

\* the longest list _mean_std is applied to
MaxValues == 3

\* the numbers the lists are made of
SampleValues == {-10, 0, 9, 10, 20}

MeanStdInputs == SeqsUpTo(SampleValues, MaxValues)

\* lines 18-23, applied to one list
MeanStdCall(values) ==
    /\ ms_values' = values
    /\ ms_out' = MeanStd(values)
    /\ UNCHANGED notMeanStd

NextMeanStd == \E values \in MeanStdInputs : MeanStdCall(values)

SpecMeanStd == Init /\ [][NextMeanStd]_vars

----------------------------------------------------------------------------
(* What the claims speak of, stated on the batch itself *)

Returned == pc = "returned"

RowIdx == 1..Len(rows)

\* the positions of the returned entries built from row i with a severity in sevs
EntriesOf(i, sevs) ==
    {j \in 1..Len(result) : result[j].row = i /\ result[j].severity \in sevs}

\* the cohort of row i: every row (kind "overall") or the rows of its category
InCohort(kind, i, j) == kind = "overall" \/ rows[j].category = rows[i].category

CohortSize(kind, i) == Cardinality({j \in RowIdx : InCohort(kind, i, j)})

CohortSum(kind, i) ==
    SumSeq([j \in RowIdx |-> IF InCohort(kind, i, j) THEN Abs(rows[j].amount) ELSE 0])

CohortSumSq(kind, i) ==
    SumSeq([j \in RowIdx |->
        IF InCohort(kind, i, j) THEN Abs(rows[j].amount) * Abs(rows[j].amount) ELSE 0])

\* n * (n - 1) times the sample variance of the cohort: n * sum(x^2) - sum(x)^2
CohortSpread(kind, i) ==
    CohortSize(kind, i) * CohortSumSq(kind, i) - CohortSum(kind, i) * CohortSum(kind, i)

\* n times the distance of row i above the cohort's mean
CohortExcess(kind, i) ==
    CohortSize(kind, i) * Abs(rows[i].amount) - CohortSum(kind, i)

\* the sample standard deviation of the cohort exists and is > 0
SampleStdPositive(kind, i) == CohortSize(kind, i) >= 2 /\ CohortSpread(kind, i) > 0

\* z = (abs(amount) - mean) / std compared with 3, both sides squared and
\* cleared of denominators: z >= 3 iff excess >= 0 and
\* excess^2 * (n - 1) >= 9 * n * spread
ZLeft(kind, i) ==
    CohortExcess(kind, i) * CohortExcess(kind, i) * (CohortSize(kind, i) - 1)

ZRight(kind, i) == 9 * CohortSize(kind, i) * CohortSpread(kind, i)

ZAtLeast3(kind, i) ==
    /\ SampleStdPositive(kind, i)
    /\ CohortExcess(kind, i) >= 0
    /\ ZLeft(kind, i) >= ZRight(kind, i)

ZExactly3(kind, i) ==
    /\ SampleStdPositive(kind, i)
    /\ CohortExcess(kind, i) >= 0
    /\ ZLeft(kind, i) = ZRight(kind, i)

\* the rows sharing row i's (normalized merchant, rounded absolute amount)
SameCharge(i) ==
    {j \in RowIdx :
        /\ Lower(Strip(rows[j].merchant)) = Lower(Strip(rows[i].merchant))
        /\ Round2(Abs(rows[j].amount)) = Round2(Abs(rows[i].amount))}

\* the rows sharing row i's normalized merchant
SameMerchant(i) ==
    {j \in RowIdx : Lower(Strip(rows[j].merchant)) = Lower(Strip(rows[i].merchant))}

HasEntry(i, severity, reason) ==
    \E j \in 1..Len(result) :
        result[j].row = i /\ result[j].severity = severity /\ result[j].reason = reason

----------------------------------------------------------------------------
(* The claims *)

\* C1: Rule A fires for a transaction exactly when the overall sample
\* standard deviation of the absolute amounts is > 0 and its z-score
\* against the overall mean is >= 3.0 (inclusive); the entry has severity
\* high and the reason "Unusually large vs your overall spend pattern".
C1_RuleAInclusiveThreshold ==
    Returned =>
        /\ \A i \in RowIdx : HasEntry(i, "high", ReasonA) <=> ZAtLeast3("overall", i)
        /\ \A j \in 1..Len(result) :
              result[j].reason = "Unusually large vs your overall spend pattern"
                  => result[j].severity = "high"

\* a transaction whose overall z-score is exactly 3.0 has been flagged by Rule A
C1_Witness ==
    /\ Returned
    /\ \E i \in RowIdx : ZExactly3("overall", i) /\ HasEntry(i, "high", ReasonA)

\* C2: every transaction gets at most one entry of severity high or medium,
\* and that entry is of the first of Rules A, B, C that matches: a Rule B
\* entry means Rule A did not match, a Rule C entry that neither A nor B did.
C2_AtMostOnePrimaryEntry ==
    Returned =>
        \A i \in RowIdx :
            /\ Cardinality(EntriesOf(i, {"high", "medium"})) <= 1
            /\ HasEntry(i, "high", ReasonB(rows[i].category))
                  => ~ZAtLeast3("overall", i)
            /\ HasEntry(i, "medium", ReasonC)
                  => ~ZAtLeast3("overall", i) /\ ~ZAtLeast3("category", i)

\* a transaction matching both Rule B and Rule C has exactly one primary entry
C2_Witness ==
    /\ Returned
    /\ \E i \in RowIdx :
          /\ ~ZAtLeast3("overall", i)
          /\ ZAtLeast3("category", i)
          /\ Cardinality(SameCharge(i)) >= 3
          /\ Cardinality(EntriesOf(i, {"high", "medium"})) = 1

\* C3: a transaction that satisfies Rule A's condition and Rule C's condition
\* yields exactly one primary-pass entry, of severity high (Rule A).
C3_RuleAWinsOverRuleC ==
    Returned =>
        \A i \in RowIdx :
            ZAtLeast3("overall", i) /\ Cardinality(SameCharge(i)) >= 3
                => /\ Cardinality(EntriesOf(i, {"high", "medium"})) = 1
                   /\ EntriesOf(i, {"medium"}) = {}
                   /\ HasEntry(i, "high", ReasonA)

\* a transaction matching both Rule A and Rule C has been reported high
C3_Witness ==
    /\ Returned
    /\ \E i \in RowIdx :
          /\ ZAtLeast3("overall", i)
          /\ Cardinality(SameCharge(i)) >= 3
          /\ EntriesOf(i, {"high"}) # {}

\* the severity rank the claims name: high 0, medium 1, low 2
ClaimedRank(sev) == IF sev = "high" THEN 0 ELSE IF sev = "medium" THEN 1 ELSE 2

\* C4: the returned list is sorted by (severity rank, descending absolute
\* amount): high before medium before low, and within one severity the
\* absolute amounts do not increase.
C4_SortedBySeverityThenAmount ==
    Returned =>
        \A j, k \in 1..Len(result) :
            j < k =>
                \/ ClaimedRank(result[j].severity) < ClaimedRank(result[k].severity)
                \/ /\ result[j].severity = result[k].severity
                   /\ Abs(result[j].amount) >= Abs(result[k].amount)

\* a list with a high, a medium and two lows of different amounts, the larger
\* low coming from the later row
C4_Witness ==
    /\ Returned
    /\ \E h, m, l1, l2 \in 1..Len(result) :
          /\ result[h].severity = "high"
          /\ result[m].severity = "medium"
          /\ result[l1].severity = "low"
          /\ result[l2].severity = "low"
          /\ Abs(result[l1].amount) > Abs(result[l2].amount)
          /\ result[l1].row > result[l2].row

\* C5: when Rules A and B do not fire for a transaction, it gets a medium
\* entry exactly when 3 or more transactions of the batch share its
\* (normalized merchant, absolute amount rounded to 2 decimals).
C5_RuleCThreeOrMore ==
    Returned =>
        \A i \in RowIdx :
            ~ZAtLeast3("overall", i) /\ ~ZAtLeast3("category", i)
                => (HasEntry(i, "medium", ReasonC) <=> Cardinality(SameCharge(i)) >= 3)

\* three transactions with one merchant and amount: each has its medium entry
C5_Witness ==
    /\ Returned
    /\ Len(rows) = 3
    /\ \A i \in RowIdx :
          Cardinality(SameCharge(i)) = 3 /\ HasEntry(i, "medium", ReasonC)

\* C6: when Rule A does not fire for a transaction, it gets a high entry
\* whose reason names its category exactly when the category's cohort has a
\* sample standard deviation > 0 and the z-score against it is >= 3.0.
C6_RuleBCategoryOutlier ==
    Returned =>
        \A i \in RowIdx :
            ~ZAtLeast3("overall", i)
                => (HasEntry(i, "high",
                        "Unusually large for category '" \o rows[i].category \o "'")
                    <=> ZAtLeast3("category", i))

\* an outlier of its category that is no outlier overall has been flagged high
C6_Witness ==
    /\ Returned
    /\ \E i \in RowIdx :
          /\ ZAtLeast3("category", i)
          /\ ~ZAtLeast3("overall", i)
          /\ HasEntry(i, "high", ReasonB(rows[i].category))

\* C7: the output holds exactly one low "New/rare merchant" entry for each
\* transaction whose normalized merchant occurs once in the batch, whatever
\* the primary pass did with it, and none for any other transaction.
C7_RuleDIndependent ==
    Returned =>
        /\ \A i \in RowIdx :
              Cardinality(EntriesOf(i, {"low"}))
                  = IF Cardinality(SameMerchant(i)) = 1 THEN 1 ELSE 0
        /\ \A j \in 1..Len(result) :
              result[j].severity = "low"
                  <=> result[j].reason = "New/rare merchant in recent period"

\* a transaction with a once-seen merchant has a high entry and its low entry
C7_Witness ==
    /\ Returned
    /\ \E i \in RowIdx :
          /\ Cardinality(SameMerchant(i)) = 1
          /\ EntriesOf(i, {"high"}) # {}
          /\ Cardinality(EntriesOf(i, {"low"})) = 1

\* row i of the output `out` has an entry of severity sev
Reported(out, i, sev) ==
    \E j \in 1..Len(out) : out[j].row = i /\ out[j].severity = sev

\* C8 as claimed: there is a batch a caller can hand to the idle detector
\* for which one transaction is reported once with severity medium and once
\* with severity low.
C8_MediumAndLowForOneTransaction ==
    pc = "idle" =>
        \E b \in InputBatches :
            \E i \in 1..Len(b) :
                /\ Reported(DetectAnomalies(b), i, "medium")
                /\ Reported(DetectAnomalies(b), i, "low")

\* C8 as amended: no transaction is reported both medium and low (Rule C
\* needs its normalized merchant 3 or more times, Rule D exactly once); the
\* passes are not deduplicated, so a transaction reported high whose
\* normalized merchant occurs once is reported low as well.
C8_HighAndLowNotMediumAndLow ==
    Returned =>
        \A i \in RowIdx :
            /\ ~(Reported(result, i, "medium") /\ Reported(result, i, "low"))
            /\ Reported(result, i, "high") /\ Cardinality(SameMerchant(i)) = 1
                  => Reported(result, i, "low")

\* one transaction is in the output twice, once high and once low
C8_Witness ==
    /\ Returned
    /\ \E j, k \in 1..Len(result) :
          /\ result[j].row = result[k].row
          /\ result[j].severity = "high"
          /\ result[k].severity = "low"

\* C9: a batch of exactly one transaction yields exactly one entry, of
\* severity low (Rule D), and none from Rules A, B or C.
C9_SingleTransaction ==
    Returned /\ Len(rows) = 1 =>
        /\ Len(result) = 1
        /\ result[1].severity = "low"
        /\ result[1].reason = "New/rare merchant in recent period"

\* the detector has returned from a batch of one transaction
C9_Witness == Returned /\ Len(rows) = 1 /\ Len(result) = 1

\* C10: on an empty batch the detector returns an empty list and computes no
\* baseline and no index: no local is bound, and the baselines and indices
\* are as the call found them.
C10_EmptyBatch ==
    Returned /\ rows = <<>> =>
        /\ result = <<>>
        /\ locals = {}
        /\ overall = NoStats
        /\ by_cat = <<>> /\ cat_stats = <<>>
        /\ by_merchant_amount = <<>> /\ merchant_counts = <<>>

\* the detector has returned from the empty batch
C10_Witness == Returned /\ rows = <<>> /\ result = <<>>

\* C11: entries that tie on severity and absolute amount keep the order of
\* the input rows they come from (the sort is stable).  A batch of three
\* identical rows followed by one row of a merchant seen once, of another
\* amount, gives four entries: three medium ones in input order, then one
\* low one for the last row.
C11_TiesKeepInputOrder ==
    Returned =>
        /\ \A j, k \in 1..Len(result) :
              ( /\ j < k
                /\ result[j].severity = result[k].severity
                /\ Abs(result[j].amount) = Abs(result[k].amount) )
                  => result[j].row < result[k].row
        /\ ( /\ Len(rows) = 4
             /\ rows[1] = rows[2] /\ rows[2] = rows[3]
             /\ SameMerchant(4) = {4} )
               => [j \in 1..Len(result) |-> <<result[j].severity, result[j].row>>]
                     = << <<"medium", 1>>, <<"medium", 2>>, <<"medium", 3>>, <<"low", 4>> >>

\* three identical rows and one row of a rare merchant have been ranked
C11_Witness ==
    /\ Returned
    /\ Len(rows) = 4
    /\ rows[1] = rows[2] /\ rows[2] = rows[3]
    /\ SameMerchant(4) = {4}
    /\ Len(result) = 4
    /\ result[1].severity = result[3].severity
    /\ Abs(result[1].amount) = Abs(result[3].amount)

\* row i lies below its cohort's mean by at least three sample standard deviations
ZAtMostMinus3(kind, i) ==
    /\ SampleStdPositive(kind, i)
    /\ CohortExcess(kind, i) < 0
    /\ ZLeft(kind, i) >= ZRight(kind, i)

\* C12: the z-score rules are one-sided.  A row whose absolute amount is at
\* or below the mean of the whole batch is never flagged by Rule A, and a
\* row at or below the mean of its category is never flagged by Rule B,
\* however far below the mean it lies.
C12_ZScoreRulesOneSided ==
    Returned =>
        \A i \in RowIdx :
            /\ CohortExcess("overall", i) <= 0 => ~HasEntry(i, "high", ReasonA)
            /\ CohortExcess("category", i) <= 0
                  => ~HasEntry(i, "high", ReasonB(rows[i].category))

\* a row three standard deviations below its category's mean, where Rule A
\* has no say, has been left without a high entry
C12_Witness ==
    /\ Returned
    /\ \E i \in RowIdx :
          /\ ZAtMostMinus3("category", i)
          /\ ~ZAtMostMinus3("overall", i)
          /\ EntriesOf(i, {"high"}) = {}

\* the call is over, with a result or with an exception
Ended == pc \in {"returned", "raised"}

\* C13: a cohort whose standard deviation is zero disables its z-score rule
\* and the call does not fail: no call ends in a division by zero, a batch
\* whose absolute amounts are all equal gets no Rule A entry, and the rows
\* of a category whose absolute amounts are all equal get no Rule B entry.
C13_ZeroStdDisablesRule ==
    Ended =>
        /\ pc = "returned"
        /\ \A i \in RowIdx :
              /\ CohortSpread("overall", i) = 0
                    => \A j \in 1..Len(result) : result[j].reason # ReasonA
              /\ CohortSpread("category", i) = 0
                    => ~HasEntry(i, "high", ReasonB(rows[i].category))

\* a call on several rows of one absolute amount, of both signs, has
\* returned a list
C13_Witness ==
    /\ Returned
    /\ Len(rows) >= 3
    /\ CohortSpread("overall", 1) = 0
    /\ \E i, j \in RowIdx : rows[i].amount # rows[j].amount
    /\ result # <<>>

\* _mean_std has been applied on its own
MeanStdReturned == ms_out # NoStats

SumOfSquares(values) == SumSeq([i \in 1..Len(values) |-> values[i] * values[i]])

\* C14: _mean_std returns (0.0, 0.0) for no values and (v, 0.0) for one
\* value v; for n >= 2 values the mean is sum/n and the variance is
\* sum((x - mean)^2)/(n - 1), which is (n*sum(x^2) - sum(x)^2)/(n*(n - 1));
\* no division has a zero divisor, so it never raises.
C14_MeanStd ==
    MeanStdReturned =>
        LET n == Len(ms_values)
            s == SumSeq(ms_values)
            q == SumOfSquares(ms_values)
        IN  /\ ms_out.mden > 0 /\ ms_out.vden > 0
            /\ n = 0 => ms_out.mnum = 0 /\ ms_out.vnum = 0
            /\ n = 1 => ms_out.mnum = ms_values[1] * ms_out.mden /\ ms_out.vnum = 0
            /\ n >= 2 =>
                  /\ ms_out.mnum * n = s * ms_out.mden
                  /\ ms_out.vnum * n * (n - 1) = (n * q - s * s) * ms_out.vden

\* _mean_std has been applied to three values that are not all equal
C14_Witness ==
    /\ MeanStdReturned
    /\ Len(ms_values) = 3
    /\ ms_values[1] # ms_values[3]
    /\ ms_out.vnum > 0

\* the capital letters that occur in merchants and answers, each with its
\* small letter
CasePairs == { <<"T", "t">>, <<"E", "e">>, <<"R", "r">>, <<"S", "s">>, <<"Y", "y">> }

SameLetter(x, y) == x = y \/ <<x, y>> \in CasePairs \/ <<y, x>> \in CasePairs

\* the positions of m that hold something other than a blank
Ink(m) == {k \in 1..Len(m) : m[k] # " "}

\* a and b differ at most in the case of their letters and in the blanks
\* before their first and after their last other character
SameUpToCaseAndMargin(a, b) ==
    IF Ink(a) = {} \/ Ink(b) = {}
    THEN Ink(a) = {} /\ Ink(b) = {}
    ELSE LET fa == CHOOSE k \in Ink(a) : \A l \in Ink(a) : k <= l
             la == CHOOSE k \in Ink(a) : \A l \in Ink(a) : k >= l
             fb == CHOOSE k \in Ink(b) : \A l \in Ink(b) : k <= l
             lb == CHOOSE k \in Ink(b) : \A l \in Ink(b) : k >= l
         IN  /\ la - fa = lb - fb
             /\ \A d \in 0..(la - fa) : SameLetter(a[fa + d], b[fb + d])

\* m is lower-cased and trimmed
IsNormalForm(m) ==
    /\ \A k \in 1..Len(m) : \A p \in CasePairs : m[k] # p[1]
    /\ m # <<>> => m[1] # " " /\ m[Len(m)] # " "

\* C15: in the batch detector both frequency indices group merchants by
\* their lower-cased, trimmed form: every key is in that form, every row is
\* counted under one key, and a key's count is the number of rows whose
\* merchant differs from it at most in case and outer blanks (for the
\* Rule C index: and whose rounded absolute amount is the key's).
C15_MerchantsGroupedNormalized ==
    (Returned /\ rows # <<>>) =>
        /\ \A k \in DOMAIN merchant_counts :
              /\ IsNormalForm(k)
              /\ merchant_counts[k]
                    = Cardinality({j \in RowIdx : SameUpToCaseAndMargin(rows[j].merchant, k)})
        /\ \A i \in RowIdx :
              \E k \in DOMAIN merchant_counts : SameUpToCaseAndMargin(rows[i].merchant, k)
        /\ \A k \in DOMAIN by_merchant_amount :
              /\ IsNormalForm(k[1])
              /\ by_merchant_amount[k]
                    = Cardinality({j \in RowIdx :
                          /\ SameUpToCaseAndMargin(rows[j].merchant, k[1])
                          /\ Round2(Abs(rows[j].amount)) = k[2]})
        /\ \A i \in RowIdx :
              \E k \in DOMAIN by_merchant_amount :
                  /\ SameUpToCaseAndMargin(rows[i].merchant, k[1])
                  /\ Round2(Abs(rows[i].amount)) = k[2]

\* two rows whose merchants are spelled differently have been counted under
\* one key in both indices, which made both of them repeated charges
C15_Witness ==
    /\ Returned
    /\ \E i, j \in RowIdx :
          /\ rows[i].merchant # rows[j].merchant
          /\ \E k \in DOMAIN by_merchant_amount :
                /\ by_merchant_amount[k] >= 3
                /\ SameUpToCaseAndMargin(rows[i].merchant, k[1])
                /\ SameUpToCaseAndMargin(rows[j].merchant, k[1])
                /\ Round2(Abs(rows[i].amount)) = k[2]
                /\ Round2(Abs(rows[j].amount)) = k[2]
          /\ \E k \in DOMAIN merchant_counts :
                /\ SameUpToCaseAndMargin(rows[i].merchant, k)
                /\ SameUpToCaseAndMargin(rows[j].merchant, k)
          /\ HasEntry(i, "medium", ReasonC)
          /\ HasEntry(j, "medium", ReasonC)

\* C17: every returned entry carries the date, merchant, amount and
\* category of one input transaction verbatim (the amount with its sign, the
\* merchant as it was written), and its severity is high, medium or low.
C17_EntriesCarryRowVerbatim ==
    Returned =>
        \A j \in 1..Len(result) :
            /\ result[j].row \in RowIdx
            /\ result[j].date = rows[result[j].row].date
            /\ result[j].merchant = rows[result[j].row].merchant
            /\ result[j].amount = rows[result[j].row].amount
            /\ result[j].category = rows[result[j].row].category
            /\ result[j].severity \in {"high", "medium", "low"}

\* an entry has been returned for a row with a negative amount and a
\* merchant written with capitals and outer blanks
C17_Witness ==
    /\ Returned
    /\ \E j \in 1..Len(result) :
          /\ result[j].amount < 0
          /\ ~IsNormalForm(result[j].merchant)
          /\ result[j].merchant = rows[result[j].row].merchant

\* C18: detect_anomalies never mutates the batch it is given: from entry to
\* return the caller's list holds the same rows in the same order.
C18_InputNotMutated == [][pc = "called" => rows' = rows]_vars

\* a call has returned entries in another order than that of the rows they
\* come from, for a batch whose first and last rows differ
C18_Witness ==
    /\ Returned
    /\ Len(rows) >= 2
    /\ rows[1] # rows[Len(rows)]
    /\ \E j, k \in 1..Len(result) : j < k /\ result[j].row > result[k].row

\* what the rules make of row i, told from the batch alone: at most one
\* entry of the first pass and at most one of the second
ExpectedOf(i) ==
    ( IF ZAtLeast3("overall", i) THEN { <<i, "high", ReasonA>> }
      ELSE IF ZAtLeast3("category", i) THEN { <<i, "high", ReasonB(rows[i].category)>> }
      ELSE IF Cardinality(SameCharge(i)) >= 3 THEN { <<i, "medium", ReasonC>> }
      ELSE {} )
    \cup
    ( IF Cardinality(SameMerchant(i)) = 1 THEN { <<i, "low", ReasonD>> } ELSE {} )

ExpectedEntries == UNION {ExpectedOf(i) : i \in RowIdx}

C16_LookupIgnoresCaseAndMargin ==
    last.op = "merchant_exists" =>
        ( last.found <=>
              \E k \in 1..Len(db) : SameUpToCaseAndMargin(db[k].merchant, last.merchant) )

\* the single-transaction check has just been applied, in either version
Checked == last.op \in {"_looks_like_anomaly", "intelligence.detect_anomalies"}

\* a and b are equal but for the case of their letters
SameIgnoringCase(a, b) ==
    Len(a) = Len(b) /\ \A k \in 1..Len(a) : SameLetter(a[k], b[k])

\* the heuristics (1, 2, 3) that match merchant m and amount a over history d:
\* a high amount; a merchant never stored, case apart, with a medium
\* amount; an amount of at least three times a positive average
Matching(d, m, a) ==
    LET total == SumSeq([k \in 1..Len(d) |-> d[k].amount])
    IN  {h \in {1} : a >= 100}
        \cup {h \in {2} : a >= 40 /\ ~\E k \in 1..Len(d) : SameIgnoringCase(d[k].merchant, m)}
        \cup {h \in {3} : Len(d) > 0 /\ total > 0 /\ a * Len(d) >= 3 * total}

\* the heuristics a list of reasons speaks of
ShownBy(reasons) ==
    {h \in {1} : \E k \in 1..Len(reasons) : reasons[k] = "High amount (>= £100)."}
    \cup {h \in {2} : \E k \in 1..Len(reasons) :
                          reasons[k] = "New merchant and amount >= £40."}
    \cup {h \in {3} : \E k \in 1..Len(reasons) :
                          reasons[k] \notin {"High amount (>= £100).",
                                             "New merchant and amount >= £40."}}

\* the histories of at most MaxHistory rows
Histories == SeqsUpTo({StoredRow(m, a) : m \in StoredMerchants, a \in StoredAmounts},
                      MaxHistory)

\* C20: the single-transaction check, in both of its versions, evaluates
\* its three heuristics independently: the returned list holds exactly one
\* reason for every heuristic that matches, so it is empty exactly when
\* none matches, and every subset of the three reasons is returned for some
\* history, merchant and amount.
C20_HeuristicsIndependent ==
    /\ Checked =>
          /\ ShownBy(last.reasons) = Matching(db, last.merchant, last.amount)
          /\ Len(last.reasons) = Cardinality(Matching(db, last.merchant, last.amount))
    /\ last = NoCall =>
          \A S \in SUBSET {1, 2, 3} :
              \E d \in Histories, m \in QueryMerchants, a \in QueryAmounts :
                  /\ ShownBy(LooksLikeAnomaly(d, m, a)) = S
                  /\ ShownBy(IntelligenceDetectAnomalies(d, m, a)) = S

\* _looks_like_anomaly has returned all three reasons at once
C20_Witness ==
    /\ last.op = "_looks_like_anomaly"
    /\ last.reasons = << "High amount (>= £100).",
                         "New merchant and amount >= £40.",
                         "Amount is >= 3x your average transaction (£10.00)." >>

\* no stored merchant equals m, case apart
NeverSeen(d, m) == ~\E k \in 1..Len(d) : SameIgnoringCase(d[k].merchant, m)

\* C21: in the single-transaction check the high-amount reason is reported
\* exactly when amount >= 100, and the new-merchant reason exactly when the
\* merchant has never been seen in the history and amount >= 40; a
\* never-seen merchant below 40 and a known merchant at 40 or more get no
\* new-merchant reason.
C21_HighAndNewMerchantThresholds ==
    Checked =>
        /\ 1 \in ShownBy(last.reasons) <=> last.amount >= 100
        /\ 2 \in ShownBy(last.reasons)
              <=> (NeverSeen(db, last.merchant) /\ last.amount >= 40)
        /\ (NeverSeen(db, last.merchant) /\ last.amount < 40)
              => 2 \notin ShownBy(last.reasons)
        /\ (~NeverSeen(db, last.merchant) /\ last.amount >= 40)
              => 2 \notin ShownBy(last.reasons)

\* a receipt of exactly 100 at a merchant stored under another case has got
\* the high-amount reason and no new-merchant reason
C21_Witness ==
    /\ last.op = "_looks_like_anomaly"
    /\ last.amount = 100
    /\ ~NeverSeen(db, last.merchant)
    /\ \A k \in 1..Len(db) : db[k].merchant # last.merchant
    /\ 1 \in ShownBy(last.reasons)
    /\ 2 \notin ShownBy(last.reasons)

\* the all-time average is at most a third of the amount; 0.0 with no history
AtLeastThriceAverage(d, a) ==
    IF d = <<>> THEN a >= 0
    ELSE a * Len(d) >= 3 * SumSeq([k \in 1..Len(d) |-> d[k].amount])

\* the all-time average is above zero
AveragePositive(d) == d # <<>> /\ SumSeq([k \in 1..Len(d) |-> d[k].amount]) > 0

\* C22, as stated: the '3x average' reason is reported whenever amount is
\* at least 3 times the all-time average, which is 0.0 with no history.
C22_ReportedWheneverThriceAverage ==
    Checked => (AtLeastThriceAverage(db, last.amount) => 3 \in ShownBy(last.reasons))

\* C22, amended: the '3x average' reason is reported exactly when the
\* all-time average is above zero and amount is at least 3 times it; with
\* no history, or with an average of zero or below, it is never reported.
C22_ThriceAverageOnlyIfPositive ==
    Checked =>
        /\ 3 \in ShownBy(last.reasons)
              <=> (AveragePositive(db) /\ AtLeastThriceAverage(db, last.amount))
        /\ db = <<>> => 3 \notin ShownBy(last.reasons)

\* a receipt of 100, checked against a history whose average is not above
\* zero, has not got the '3x average' reason
C22_Witness ==
    /\ Checked
    /\ last.amount = 100
    /\ db # <<>>
    /\ ~AveragePositive(db)
    /\ AtLeastThriceAverage(db, last.amount)
    /\ 3 \notin ShownBy(last.reasons)

\* C23: no batch of fewer than 11 transactions produces a high entry.  In a
\* cohort of n rows no z-score exceeds (n - 1)/sqrt(n), that is
\* excess^2 <= (n - 1) * spread, which stays below 3.0 up to n = 10; so a
\* Rule A entry needs a batch of at least 11 rows and a Rule B entry a
\* category of at least 11 rows.
C23_HighNeedsElevenRows ==
    Returned =>
        /\ Len(rows) < 11 => \A j \in 1..Len(result) : result[j].severity # "high"
        /\ \A i \in RowIdx :
              /\ HasEntry(i, "high", ReasonA) => CohortSize("overall", i) >= 11
              /\ HasEntry(i, "high", ReasonB(rows[i].category))
                    => CohortSize("category", i) >= 11
              /\ \A kind \in {"overall", "category"} :
                    CohortExcess(kind, i) * CohortExcess(kind, i)
                        <= (CohortSize(kind, i) - 1) * CohortSpread(kind, i)

\* a batch of ten rows, one of them as far above the other nine as a row
\* can be, has been answered without a high entry
C23_Witness ==
    /\ Returned
    /\ Len(rows) = 10
    /\ \E i \in RowIdx :
          /\ CohortExcess("overall", i) > 0
          /\ CohortExcess("overall", i) * CohortExcess("overall", i)
                = (CohortSize("overall", i) - 1) * CohortSpread("overall", i)
    /\ \A j \in 1..Len(result) : result[j].severity # "high"

\* C24: every returned entry corresponds to one input transaction; a
\* transaction contributes at most two entries, at most one of severity
\* high or medium and at most one of severity low; so the output is at most
\* twice as long as the batch.
C24_AtMostTwoEntriesPerRow ==
    Returned =>
        /\ \A j \in 1..Len(result) :
              \E i \in RowIdx :
                  /\ result[j].row = i
                  /\ <<result[j].date, result[j].merchant, result[j].amount,
                       result[j].category>>
                        = <<rows[i].date, rows[i].merchant, rows[i].amount, rows[i].category>>
        /\ \A i \in RowIdx :
              /\ Cardinality(EntriesOf(i, {"high", "medium"})) <= 1
              /\ Cardinality(EntriesOf(i, {"low"})) <= 1
              /\ Cardinality(EntriesOf(i, {"high", "medium", "low"})) <= 2
        /\ Len(result) <= 2 * Len(rows)

\* a transaction has contributed two entries to a list that also holds
\* entries of other transactions
C24_Witness ==
    /\ Returned
    /\ \E i \in RowIdx :
          /\ Cardinality(EntriesOf(i, {"high", "medium"})) = 1
          /\ Cardinality(EntriesOf(i, {"low"})) = 1
    /\ \E i \in RowIdx : Cardinality(EntriesOf(i, {"high", "medium", "low"})) = 1
    /\ Len(result) > 2

\* the rows at row i's merchant (case and outer blanks apart) whose amount
\* is that of row i or its negative
SameChargeOrRefund(i) ==
    {j \in RowIdx :
        /\ SameUpToCaseAndMargin(rows[j].merchant, rows[i].merchant)
        /\ rows[j].amount \in {rows[i].amount, -rows[i].amount}}

\* C25: Rule C counts repetitions on the absolute amount.  A charge of +x
\* and a refund of -x at one merchant are counted under one key of the
\* Rule C index, and a row that Rules A and B leave alone is a medium
\* 'repeated charge' entry once charges and refunds together number three:
\* two charges and one refund of the same amount make all three rows medium.
C25_RuleCOnAbsoluteAmount ==
    (Returned /\ rows # <<>>) =>
        \A i \in RowIdx :
            /\ \E k \in DOMAIN by_merchant_amount :
                  /\ k[2] >= 0
                  /\ by_merchant_amount[k] >= Cardinality(SameChargeOrRefund(i))
                  /\ SameUpToCaseAndMargin(rows[i].merchant, k[1])
            /\ (Cardinality(SameChargeOrRefund(i)) >= 3 /\ EntriesOf(i, {"high"}) = {})
                  => HasEntry(i, "medium", ReasonC)

\* two charges and one refund of the same amount at one merchant have all
\* three been reported as repeated charges
C25_Witness ==
    /\ Returned
    /\ Len(rows) = 3
    /\ rows[1].amount > 0
    /\ rows[2].amount = rows[1].amount
    /\ rows[3].amount = -rows[1].amount
    /\ \A i \in RowIdx : HasEntry(i, "medium", ReasonC)
    /\ \E j \in 1..Len(result) : result[j].amount < 0

\* the place of a reason in the order high amount, new merchant, 3x average
ReasonRank(reason) ==
    CASE reason = "High amount (>= £100)." -> 1
      [] reason = "New merchant and amount >= £40." -> 2
      [] OTHER -> 3

\* C26: the two versions of the single-transaction check are equivalent:
\* over one history, merchant and amount both return the same reasons in the
\* same order, which is high amount, then new merchant, then 3x average.
C26_TwoChecksEquivalent ==
    Checked =>
        /\ last.reasons = LooksLikeAnomaly(db, last.merchant, last.amount)
        /\ last.reasons = IntelligenceDetectAnomalies(db, last.merchant, last.amount)
        /\ \A k, l \in 1..Len(last.reasons) :
              k < l => ReasonRank(last.reasons[k]) < ReasonRank(last.reasons[l])

\* intelligence.anomaly.detect_anomalies has returned the three reasons that
\* _looks_like_anomaly returns for the same input
C26_Witness ==
    /\ last.op = "intelligence.detect_anomalies"
    /\ Len(last.reasons) = 3
    /\ last.reasons = LooksLikeAnomaly(db, last.merchant, last.amount)
    /\ last.reasons[3] = "Amount is >= 3x your average transaction (£10.00)."

\* confirm_transaction has returned
ReceiptAnswered == flow.pc \in {"confirmed", "done"}

\* the receipt lacks what a transaction needs: it is no JSON text, or its
\* merchant is empty or blank, its date missing or its amount not above zero
ReceiptIncomplete ==
    \/ flow.parsed.kind = "invalid"
    \/ /\ flow.parsed.kind = "object"
       /\ \/ Ink(flow.parsed.merchant) = {}
          \/ flow.parsed.date \in {"None", ""}
          \/ flow.parsed.total_amount = <<>>
          \/ flow.parsed.total_amount[1] <= 0

\* the answer is y or yes, case and outer blanks apart
SaysYes(answer) ==
    \/ SameUpToCaseAndMargin(answer, <<"y">>)
    \/ SameUpToCaseAndMargin(answer, <<"y", "e", "s">>)

\* inner is outer without the blanks before its first and after its last
\* other character
TrimmedFrom(inner, outer) ==
    /\ inner # <<>>
    /\ inner[1] # " " /\ inner[Len(inner)] # " "
    /\ \E lead \in 0..Len(outer) :
          /\ lead + Len(inner) <= Len(outer)
          /\ SubSeq(outer, lead + 1, lead + Len(inner)) = inner
          /\ \A k \in 1..Len(outer) :
                (k <= lead \/ k > lead + Len(inner)) => outer[k] = " "

\* what confirm_transaction and the CLI do to the transactions table
ReceiptWrites ==
    /\ flow.pc = "confirmed" => db = flow.before
    /\ flow.pc = "done" =>
          db = IF flow.tx = <<>> THEN flow.before
               ELSE Append(flow.before,
                           [merchant |-> flow.tx[1].merchant, amount |-> flow.tx[1].amount])

\* C27, as stated: confirm_transaction never writes to the database and
\* returns None when the text is not valid JSON, when merchant is empty,
\* date is missing or amount <= 0, and when the answer to the save prompt
\* is anything other than 'y' or 'yes'; only the CLI inserts the row, and
\* only when a Transaction was returned.
C27_NoneUnlessAnswerIsYOrYes ==
    ReceiptAnswered =>
        /\ ReceiptWrites
        /\ ReceiptIncomplete => flow.tx = <<>>
        /\ flow.answer \notin { <<"y">>, <<"y", "e", "s">> } => flow.tx = <<>>

\* C27, amended: confirm_transaction never writes to the database; it
\* returns a Transaction exactly when the text is a JSON object with a
\* non-blank merchant, a date and an amount above zero and the answer to
\* the save prompt, trimmed and lower-cased, is y or yes, whether or not
\* warnings were printed; the transaction carries the trimmed merchant, the
\* date and the amount.  Only the CLI inserts the row, and only when a
\* Transaction was returned.
C27_SavedOnlyWhenConfirmed ==
    ReceiptAnswered =>
        /\ ReceiptWrites
        /\ flow.tx # <<>> <=> (~ReceiptIncomplete /\ SaysYes(flow.answer))
        /\ flow.tx # <<>> =>
              /\ TrimmedFrom(flow.tx[1].merchant, flow.parsed.merchant)
              /\ flow.tx[1].date = flow.parsed.date
              /\ flow.tx[1].amount = flow.parsed.total_amount[1]

\* a receipt with warnings, answered " YES ", has been returned as a
\* Transaction and inserted by the CLI
C27_Witness ==
    /\ flow.pc = "done"
    /\ flow.answer = <<" ", "Y", "E", "S", " ">>
    /\ flow.reasons # <<>>
    /\ flow.tx # <<>>
    /\ Len(db) = Len(flow.before) + 1

\* the numbers a comma-separated answer lists, in the order typed
ListedPositions(answer) ==
    CASE answer = <<"2", ",", "1">> -> <<2, 1>>
      [] answer = <<"1", ",", "1">> -> <<1, 1>>
      [] answer = <<"1", ",", " ", "3", " ", ",", "x", ",", "0", ",", "2">> -> <<1, 3, 0, 2>>
      [] answer = <<"0", "1", ",", "9">> -> <<1, 9>>
      [] answer = <<"1", "0">> -> <<10>>
      [] OTHER -> <<>>

\* the members of s that lie in 1..n, in order
RECURSIVE Within(_, _)
Within(s, n) ==
    IF s = <<>> THEN <<>>
    ELSE (IF Head(s) \in 1..n THEN <<Head(s)>> ELSE <<>>) \o Within(Tail(s), n)

\* C28: confirm_statement_transactions returns only transactions taken from
\* the candidate list, each with a category that is neither missing, None
\* nor empty; an empty candidate list or a cancel answer (n, no, cancel,
\* quit) returns an empty list, 'all' returns every candidate in order, and
\* a comma-separated answer returns the candidates at the listed 1-based
\* positions in the order typed, ignoring non-numeric parts and positions
\* outside 1..len(candidates).
C28_SelectionWithCategories ==
    stmt.pc = "returned" =>
        LET n == Len(stmt.txs)
            positions == [k \in 1..Len(stmt.out) |-> stmt.out[k].pos]
        IN  /\ \A k \in 1..Len(stmt.out) :
                  /\ stmt.out[k].pos \in 1..n
                  /\ stmt.out[k].category \notin {"<missing>", "None", ""}
            /\ n = 0 => stmt.out = <<>>
            /\ stmt.answer \in { <<"n">>, <<"q", "u", "i", "t">>,
                                 <<"c", "a", "n", "c", "e", "l">> } => stmt.out = <<>>
            /\ stmt.answer = <<"a", "l", "l">> => positions = [k \in 1..n |-> k]
            /\ (\E k \in 1..Len(stmt.answer) : stmt.answer[k] \in {",", "0", "1"})
                  => positions = Within(ListedPositions(stmt.answer), n)

\* the rows of a list of budget rows that are for category c
RowsFor(table, c) == {k \in 1..Len(table) : table[k].category = c}

\* a list of budget rows holds, for each category, what was last set
HoldsLatest(table) ==
    \A c \in BudgetCategories :
        /\ Cardinality(RowsFor(table, c)) <= 1
        /\ c \in DOMAIN budgets.latest <=> RowsFor(table, c) # {}
        /\ \A k \in RowsFor(table, c) : table[k].monthly_limit = budgets.latest[c]

\* C29: after any sequence of set_budget calls get_budgets returns at most
\* one row per category, with the limit of the most recent set_budget call
\* for it; setting a budget for one category leaves every other category's
\* budget and all transactions unchanged.
C29_BudgetsHoldLatestLimit ==
    /\ [](HoldsLatest(budgets.table)
             /\ (last.op = "get_budgets" => HoldsLatest(last.rows)))
    /\ [][last'.op = "set_budget" =>
             /\ db' = db
             /\ \A c \in BudgetCategories \ {last'.category} :
                   {budgets'.table[k] : k \in RowsFor(budgets'.table, c)}
                       = {budgets.table[k] : k \in RowsFor(budgets.table, c)}]_vars

\* get_budgets has returned one row for a category whose budget was set
\* twice, with other budgets and a transaction in place
C29_Witness ==
    /\ last.op = "get_budgets"
    /\ Len(last.rows) = 3
    /\ last.rows[1].monthly_limit = 250
    /\ last.rows[2].monthly_limit = 100
    /\ db # <<>>

\* the transactions the ledger file holds, read back
LedgerEntries == IF ledger.exists THEN Loads(ledger.text) ELSE <<>>

\* C30: the ledger is append-only under save_transaction: starting from an
\* absent or empty ledger, after any sequence of calls the file holds every
\* saved transaction unchanged and in save order, the newest last, so its
\* length is the number of calls.
C30_LedgerHoldsEveryCall ==
    /\ Len(LedgerEntries) = Len(ledger.calls)
    /\ \A k \in 1..Len(LedgerEntries) :
          k <= Len(ledger.calls) =>
              \A f \in {"date", "merchant", "amount", "category"} :
                  LedgerEntries[k][f].v = ledger.calls[k][f].v

====
